---- MODULE Spec2Model ----
(***************************************************************************)
(* Model of the ICS fetch / parse / recurrence / window-filter pipeline of *)
(* obsidian-calendar-events (src/src/graph.ts).                            *)
(*                                                                         *)
(* Time.  An instant is a JavaScript Date.getTime() value, in              *)
(* milliseconds, counted from 2025-03-01T00:00:00.000Z instead of from     *)
(* 1970 so that every value fits TLC's 32-bit integers (about +-24 days    *)
(* around the origin).  The US daylight-saving transition of 2025-03-09    *)
(* 07:00Z lies inside that range.                                          *)
(*                                                                         *)
(* An ISO string ("2025-03-09T07:00:00.000Z", the output of                *)
(* Date.toISOString) is the tuple <<year, month, day, hour, minute,        *)
(* second, millisecond>>; comparing two such strings character by          *)
(* character is comparing the tuples field by field.                       *)
(***************************************************************************)
EXTENDS Integers, Sequences, FiniteSets, TLC

MsPerSecond == 1000
MsPerMinute == 60 * 1000
MsPerHour == 3600 * 1000
MsPerDay == 24 * 3600 * 1000

\* null where an ISO string is expected (toISO's failure value)
Null == <<>>

(***************************************************************************)
(* Calendar arithmetic of Date for the year 2025 (not a leap year).        *)
(***************************************************************************)
MonthLengths == <<31, 28, 31, 30, 31, 30, 31, 31, 30, 31, 30, 31>>

RECURSIVE DaysBeforeMonth(_)
DaysBeforeMonth(mo) ==
    IF mo <= 1 THEN 0 ELSE DaysBeforeMonth(mo - 1) + MonthLengths[mo - 1]

\* Day number of 2025-mo-d counted from 2025-03-01; d may overflow the month,
\* as Date.UTC lets it.
DayNumber(mo, d) == DaysBeforeMonth(mo) + (d - 1) - DaysBeforeMonth(3)

\* Date.UTC(year, month - 1, day, hour, minute, second)
DateUTC(y, mo, d, hh, mm, ss) ==
    DayNumber(mo, d) * MsPerDay + hh * MsPerHour + mm * MsPerMinute + ss * MsPerSecond

MonthOfDayOfYear(doy) ==
    CHOOSE mo \in 1..12 :
        /\ DaysBeforeMonth(mo) <= doy
        /\ doy < DaysBeforeMonth(mo) + MonthLengths[mo]

\* Date.prototype.toISOString
toISOString(t) ==
    LET Fields(doy, mo, rem) ==
            << 2025, mo, doy - DaysBeforeMonth(mo) + 1,
               rem \div MsPerHour,
               (rem % MsPerHour) \div MsPerMinute,
               (rem % MsPerMinute) \div MsPerSecond,
               rem % MsPerSecond >>
        OfDay(doy, rem) == Fields(doy, MonthOfDayOfYear(doy), rem)
    IN  OfDay(t \div MsPerDay + DaysBeforeMonth(3), t % MsPerDay)

\* new Date(isoString).getTime() for a string toISOString produced
DateParseISO(iso) ==
    DateUTC(iso[1], iso[2], iso[3], iso[4], iso[5], iso[6]) + iso[7]

\* a.localeCompare(b) on two ISO strings: -1, 0 or 1
RECURSIVE CompareFrom(_, _, _)
CompareFrom(a, b, i) ==
    IF i > Len(a) THEN 0
    ELSE IF a[i] < b[i] THEN -1
    ELSE IF a[i] > b[i] THEN 1
    ELSE CompareFrom(a, b, i + 1)

localeCompare(a, b) == CompareFrom(a, b, 1)

(***************************************************************************)
(* Time zones as the runtime (Intl, Date) knows them.  A zone is its UTC   *)
(* offset as a function of the instant.                                    *)
(***************************************************************************)
KnownZones ==
    {"Africa/Casablanca", "America/New_York", "Asia/Tokyo", "Etc/UTC", "UTC"}

\* 2025-03-09T07:00:00Z: New York goes from -05:00 to -04:00
NewYorkDstStart == DateUTC(2025, 3, 9, 7, 0, 0)

\* 2025-02-23T02:00:00Z: Casablanca goes from +01:00 back to +00:00
CasablancaDstEnd == DateUTC(2025, 2, 23, 2, 0, 0)

ZoneOffset(tz, t) ==
    CASE tz = "America/New_York" ->
            IF t < NewYorkDstStart THEN -5 * MsPerHour ELSE -4 * MsPerHour
      [] tz = "Africa/Casablanca" ->
            IF t < CasablancaDstEnd THEN MsPerHour ELSE 0
      [] tz = "Asia/Tokyo" -> 9 * MsPerHour
      [] OTHER -> 0

ZoneOffsets(tz) ==
    CASE tz = "America/New_York" -> {-5 * MsPerHour, -4 * MsPerHour}
      [] tz = "Africa/Casablanca" -> {MsPerHour, 0}
      [] tz = "Asia/Tokyo" -> {9 * MsPerHour}
      [] OTHER -> {0}

Min(S) == CHOOSE x \in S : \A y \in S : x <= y

\* The instant at which the clock of zone tz reads the wall time w (w given as
\* the instant at which a UTC clock would read it).  A wall time that occurs
\* twice resolves to the earlier instant, one that is skipped is read with
\* the offset in force before the gap.
WallToInstant(tz, w) ==
    LET exact == {w - o : o \in ZoneOffsets(tz)}
        hits == {u \in exact : u + ZoneOffset(tz, u) = w}
    IN  IF hits # {} THEN Min(hits) ELSE w - Min(ZoneOffsets(tz))

(***************************************************************************)
(* State.                                                                  *)
(***************************************************************************)
VARIABLES
    localZone,          \* the zone of the process (Date's local time)
    now,                \* the clock: what new Date() returns
    settings,           \* ObsidianCalendarSettings: calendars, daysBefore, daysAhead
    served,             \* url -> what requestUrl({url}) currently answers
    pc,                 \* fetchEvents: "idle", "fetching", "resolved", "rejected"
    call,               \* locals of the running fetchEvents invocation
    pending,            \* indices of sources whose requestUrl has not settled
    allResults,         \* index of source -> events of that source (withMeta)
    requested,          \* urls handed to requestUrl by this invocation, in order
    settled,            \* indices of the sources whose callback has run, in order
    returned,           \* what the invocation resolved or rejected with
    recurringMasters,   \* the three maps of the latest parseICS invocation
    cancelledInstances,
    overrideInstances,
    firstCall,          \* inputs and outcome of the first completed invocation
    atCall,             \* the settings as they were when the invocation began
    tab,                \* settings tab: the field last edited and the text entered
    view,               \* CalendarView: its fields and what its container shows
    intervals,          \* window.setInterval: the timers created and still active
    fetches             \* the fetchEvents promises the view and commands await

uiVars == << tab, view, intervals, fetches >>

vars == << localZone, now, settings, served, pc, call, pending, allResults,
           requested, settled, returned, recurringMasters, cancelledInstances,
           overrideInstances, firstCall, atCall, uiVars >>

(***************************************************************************)
(* ICS text.  A feed text is the sequence of its VEVENT blocks (the empty  *)
(* sequence: a text without any BEGIN:VEVENT); a block is the sequence of  *)
(* its unfolded property lines; a line is [name, tzid, value] where tzid   *)
(* is the text of the TZID parameter cut at its colons (<<>>: none).       *)
(* A date or date-time value is [kind, mo, d, hh, mm, ss]:                 *)
(*   "date"  2025MMDD            "local"  2025MMDDTHHMMSS                  *)
(*   "utc"   2025MMDDTHHMMSSZ    "bad"    any other non-empty text         *)
(*   "empty" the empty string                                              *)
(***************************************************************************)
EmptyValue == [kind |-> "empty", mo |-> 0, d |-> 0, hh |-> 0, mm |-> 0, ss |-> 0]
BadValue == [kind |-> "bad", mo |-> 0, d |-> 0, hh |-> 0, mm |-> 0, ss |-> 0]
DateValue(mo, d) == [kind |-> "date", mo |-> mo, d |-> d, hh |-> 0, mm |-> 0, ss |-> 0]
LocalValue(mo, d, hh, mm) ==
    [kind |-> "local", mo |-> mo, d |-> d, hh |-> hh, mm |-> mm, ss |-> 0]
UtcValue(mo, d, hh, mm) ==
    [kind |-> "utc", mo |-> mo, d |-> d, hh |-> hh, mm |-> mm, ss |-> 0]

\* normalizeTZID: Windows zone names to IANA ids, the "(UTC-05:00) " prefix removed
TzidMap(cleaned) ==
    CASE cleaned = "Eastern Standard Time" -> "America/New_York"
      [] cleaned = "Eastern Time" -> "America/New_York"
      [] cleaned = "Eastern Time (US & Canada)" -> "America/New_York"
      [] cleaned = "Coordinated Universal Time" -> "UTC"
      [] cleaned = "UTC" -> "UTC"
      [] OTHER -> ""

\* tz.replace(/\(UTC[^\)]*\)\s*/i, "").trim() on the labels of this model
StripUtcPrefix(tz) ==
    CASE tz = "(UTC-05:00) Eastern Time (US & Canada)" -> "Eastern Time (US & Canada)"
      [] OTHER -> tz

normalizeTZID(tz) ==
    LET Mapped(found) == IF found # "" THEN found ELSE tz
    IN  IF tz = "" THEN tz ELSE Mapped(TzidMap(StripUtcPrefix(tz)))

\* readProp(line): line.split(":") gives [left, right, ...]; the value is the
\* text between the first and the second colon, the zone what follows TZID=
\* in the text before the first colon.
readProp(line) ==
    [ value |-> IF Len(line.tzid) <= 1 THEN line.value ELSE BadValue,
      tz |-> normalizeTZID(IF line.tzid = <<>> THEN "" ELSE line.tzid[1]) ]

\* zonedWallTimeToUTCISO(dateStr, tz) for a dateStr that toISO passes on
zonedWallTimeToUTCISO(val, tz) ==
    IF val.kind = "empty" THEN Null
    ELSE IF val.kind \notin {"date", "local"} THEN Null
    ELSE IF val.kind = "date"
    THEN toISOString(DateUTC(2025, val.mo, val.d, 0, 0, 0))
    ELSE IF tz = ""
    THEN \* floating: new Date(y, mo - 1, d, h, mi, s), minus getTimezoneOffset()
         LET Shifted(local) == toISOString(local + ZoneOffset(localZone, local))
         IN  Shifted(WallToInstant(localZone,
                                   DateUTC(2025, val.mo, val.d, val.hh, val.mm, val.ss)))
    ELSE IF tz \notin KnownZones
    THEN \* Intl.DateTimeFormat throws RangeError: the catch assumes UTC
         toISOString(DateUTC(2025, val.mo, val.d, val.hh, val.mm, val.ss))
    ELSE LET \* formatToParts(probe) read back through Date.UTC
             TzWallUTC(probe) == DateParseISO(toISOString(probe + ZoneOffset(tz, probe)))
             IntendedUTC(naiveUTC, tzWallUTC) == naiveUTC - (tzWallUTC - naiveUTC)
             Zoned(probe) == IntendedUTC(probe, TzWallUTC(probe))
         IN  toISOString(Zoned(DateUTC(2025, val.mo, val.d, val.hh, val.mm, val.ss)))

\* toISO(val, tz).  new Date("20250303T140000Z") is an Invalid Date (the
\* string is not in the format Date.parse recognises), so its toISOString
\* throws and the catch returns null.
toISO(val, tz) ==
    IF val.kind = "empty" THEN Null
    ELSE IF val.kind = "date"
    THEN toISOString(DateUTC(2025, val.mo, val.d, 0, 0, 0))
    ELSE IF val.kind = "utc" THEN Null
    ELSE zonedWallTimeToUTCISO(val, tz)

(***************************************************************************)
(* parseICS                                                                *)
(***************************************************************************)
Line(name, value) == [name |-> name, tzid |-> <<>>, value |-> value]
\* the pieces line.split(":") cuts the text of a TZID parameter into
SplitAtColons(tzid) ==
    CASE tzid = "(UTC-05:00) Eastern Time (US & Canada)" ->
            << "(UTC-05", "00) Eastern Time (US & Canada)" >>
      [] OTHER -> << tzid >>

ZonedLine(name, tzid, value) ==
    [name |-> name, tzid |-> SplitAtColons(tzid), value |-> value]

\* the locals of the loop over one block's lines, before the first line
BlockFields ==
    [ uid |-> "", summary |-> "(no title)", start |-> EmptyValue, startTz |-> "",
      end |-> EmptyValue, endTz |-> "", recurrenceId |-> EmptyValue,
      recurrenceTz |-> "", rrule |-> "", location |-> "", canceled |-> FALSE ]

ReadLine(f, line) ==
    LET Store(prop) ==
            CASE line.name = "UID" -> [f EXCEPT !.uid = line.value]
              [] line.name = "SUMMARY" -> [f EXCEPT !.summary = line.value]
              [] line.name = "LOCATION" -> [f EXCEPT !.location = line.value]
              [] line.name = "STATUS:CANCELLED" -> [f EXCEPT !.canceled = TRUE]
              [] line.name = "DTSTART" ->
                    [f EXCEPT !.start = prop.value, !.startTz = prop.tz]
              [] line.name = "DTEND" ->
                    [f EXCEPT !.end = prop.value, !.endTz = prop.tz]
              [] line.name = "RRULE" -> [f EXCEPT !.rrule = line.value]
              [] line.name = "RECURRENCE-ID" ->
                    [f EXCEPT !.recurrenceId = prop.value, !.recurrenceTz = prop.tz]
              [] OTHER -> f
    IN  Store(readProp(line))

RECURSIVE ReadLines(_, _, _)
ReadLines(f, lines, i) ==
    IF i > Len(lines) THEN f ELSE ReadLines(ReadLine(f, lines[i]), lines, i + 1)

\* maps kept at module level: an invocation goes on from what the last one left
CarriedMaps(left) == left

\* The three maps a parseICS invocation starts from (const ... = {}), whatever
\* maps an earlier invocation left behind.
FreshMaps(left) == [masters |-> <<>>, cancelled |-> <<>>, overrides |-> <<>>]

HasKey(map, key) == \E i \in 1..Len(map) : map[i].key = key
Lookup(map, key) == map[CHOOSE i \in 1..Len(map) : map[i].key = key].value
\* map[key] = value on a JavaScript object: a new key goes last, an existing
\* key keeps its place
Assign(map, key, value) ==
    IF HasKey(map, key)
    THEN [i \in 1..Len(map) |->
            IF map[i].key = key THEN [key |-> key, value |-> value] ELSE map[i]]
    ELSE Append(map, [key |-> key, value |-> value])

\* any block with a rule is a master, RECURRENCE-ID or not
IsMasterAnyRule(f) == f.rrule # ""

\* line 192: rrule && !recurrenceId
IsMaster(f) == f.rrule # "" /\ f.recurrenceId.kind = "empty"

\* one pass of the loop over the blocks (lines 144-246)
ParseBlock(st, block) ==
    LET Classify(f, startISO, endISO, ridISO) ==
            IF f.uid = "" \/ startISO = Null THEN st
            ELSE IF IsMaster(f)
            THEN [st EXCEPT !.masters =
                    Assign(@, f.uid,
                           [ uid |-> f.uid, summary |-> f.summary, location |-> f.location,
                             startISO |-> startISO, endISO |-> endISO, rrule |-> f.rrule,
                             startRaw |-> f.start, startTz |-> f.startTz ])]
            ELSE IF f.recurrenceId.kind # "empty"
            THEN IF ridISO = Null THEN st
                 ELSE IF f.canceled
                 THEN [st EXCEPT !.cancelled =
                         Assign(@, f.uid,
                                Append(IF HasKey(@, f.uid) THEN Lookup(@, f.uid) ELSE <<>>,
                                       ridISO))]
                 ELSE [st EXCEPT !.overrides =
                         Assign(@, f.uid,
                                Assign(IF HasKey(@, f.uid) THEN Lookup(@, f.uid) ELSE <<>>,
                                       ridISO,
                                       [ id |-> <<f.uid, ridISO>>, subject |-> f.summary,
                                         start |-> startISO,
                                         end |-> IF endISO = Null THEN startISO ELSE endISO,
                                         location |-> f.location, isRecurring |-> TRUE,
                                         raw |-> block ]))]
            ELSE IF ~f.canceled /\ f.rrule = "" /\ f.recurrenceId.kind = "empty"
            THEN [st EXCEPT !.events =
                    Append(@, [ id |-> <<f.uid, startISO>>, subject |-> f.summary,
                                start |-> startISO,
                                end |-> IF endISO = Null THEN startISO ELSE endISO,
                                isRecurring |-> FALSE, location |-> f.location,
                                raw |-> block ])]
            ELSE st
        Convert(f) ==
            Classify(f, toISO(f.start, f.startTz), toISO(f.end, f.endTz),
                     toISO(f.recurrenceId, f.recurrenceTz))
    IN  Convert(ReadLines(BlockFields, block, 1))

RECURSIVE ParseBlocks(_, _, _)
ParseBlocks(st, blocks, i) ==
    IF i > Len(blocks) THEN st ELSE ParseBlocks(ParseBlock(st, blocks[i]), blocks, i + 1)

(***************************************************************************)
(* The rrule library: rrulestr("DTSTART:...\nRRULE:...").between(a, b,     *)
(* true).  The rules of this model are FREQ=DAILY and FREQ=WEEKLY: the     *)
(* occurrences are dtstart + k periods, k = 0, 1, ..., computed in UTC.    *)
(* Any other rule text makes rrulestr throw.                               *)
(***************************************************************************)
ValidRules == {"FREQ=DAILY", "FREQ=WEEKLY"}
RulePeriod(rrule) == IF rrule = "FREQ=WEEKLY" THEN 7 * MsPerDay ELSE MsPerDay

RECURSIVE OccurrencesFrom(_, _, _)
OccurrencesFrom(t, period, before) ==
    IF t > before THEN <<>> ELSE <<t>> \o OccurrencesFrom(t + period, period, before)

\* every occurrence up to the end bound, the start bound ignored
RuleUpTo(dtStart, rrule, after, before) ==
    OccurrencesFrom(dtStart, RulePeriod(rrule), before)

RuleBetween(dtStart, rrule, after, before) ==
    LET period == RulePeriod(rrule)
        skipped == IF after <= dtStart THEN 0
                   ELSE (after - dtStart + period - 1) \div period
    IN  OccurrencesFrom(dtStart + skipped * period, period, before)

\* every occurrence ends when it starts
DurationZero(m) == 0

\* lines 257-258: new Date(m.endISO ?? m.startISO).getTime() - new Date(m.startISO).getTime()
DurationMs(m) ==
    DateParseISO(IF m.endISO = Null THEN m.startISO ELSE m.endISO)
        - DateParseISO(m.startISO)

\* the occurrences of one master (lines 250-286): the events to push
MasterEvents(st, m, startBoundary, endBoundary) ==
    LET \* m.startISO.replace(/[-:]/g, "").split(".")[0] + "Z"
        dtStart == DateUTC(m.startISO[1], m.startISO[2], m.startISO[3],
                           m.startISO[4], m.startISO[5], m.startISO[6])
        durationMs == DurationMs(m)
        Cancelled(iso) ==
            /\ HasKey(st.cancelled, m.uid)
            /\ \E j \in 1..Len(Lookup(st.cancelled, m.uid)) :
                    Lookup(st.cancelled, m.uid)[j] = iso
        Overridden(iso) ==
            /\ HasKey(st.overrides, m.uid)
            /\ HasKey(Lookup(st.overrides, m.uid), iso)
        Event(startDateISO, endDateISO) ==
            IF Cancelled(startDateISO) THEN <<>>
            ELSE IF Overridden(startDateISO)
            THEN << Lookup(Lookup(st.overrides, m.uid), startDateISO) >>
            ELSE << [ id |-> <<m.uid, startDateISO>>, subject |-> m.summary,
                      start |-> startDateISO, end |-> endDateISO,
                      location |-> m.location, isRecurring |-> TRUE, raw |-> m ] >>
        EventAt(date) == Event(toISOString(date), toISOString(date + durationMs))
        Push(between) ==
            LET Pushed[i \in 0..Len(between)] ==
                    IF i = 0 THEN <<>> ELSE Pushed[i - 1] \o EventAt(between[i])
            IN  Pushed[Len(between)]
    IN  Push(RuleBetween(dtStart, m.rrule, startBoundary, endBoundary))

RECURSIVE ExpandMasters(_, _, _, _)
ExpandMasters(st, i, startBoundary, endBoundary) ==
    IF i > Len(st.masters) THEN st
    ELSE IF st.masters[i].value.rrule \notin ValidRules
    THEN [st EXCEPT !.threw = TRUE]
    ELSE ExpandMasters(
            [st EXCEPT !.events =
                @ \o MasterEvents(st, st.masters[i].value, startBoundary, endBoundary)],
            i + 1, startBoundary, endBoundary)

\* Array.prototype.sort((a, b) => a.start.localeCompare(b.start)): stable
RECURSIVE InsertSorted(_, _)
InsertSorted(sorted, ev) ==
    IF sorted = <<>> THEN <<ev>>
    ELSE IF localeCompare(sorted[Len(sorted)].start, ev.start) <= 0
    THEN Append(sorted, ev)
    ELSE Append(InsertSorted(SubSeq(sorted, 1, Len(sorted) - 1), ev),
                sorted[Len(sorted)])

RECURSIVE SortFrom(_, _, _)
SortFrom(sorted, events, i) ==
    IF i > Len(events) THEN sorted
    ELSE SortFrom(InsertSorted(sorted, events[i]), events, i + 1)

SortByStart(events) == SortFrom(<<>>, events, 1)

\* parseICS(icsText, startBoundary, endBoundary): [threw, events] and the maps
\* as the invocation leaves them
parseICS(icsText, startBoundary, endBoundary, left) ==
    LET Start(maps) ==
            [ events |-> <<>>, masters |-> maps.masters,
              cancelled |-> maps.cancelled, overrides |-> maps.overrides,
              threw |-> FALSE ]
        Sorted(st) == IF st.threw THEN st ELSE [st EXCEPT !.events = SortByStart(@)]
    IN  Sorted(ExpandMasters(ParseBlocks(Start(FreshMaps(left)), icsText, 1),
                             1, startBoundary, endBoundary))

(***************************************************************************)
(* CalendarClient.fetchEvents                                              *)
(***************************************************************************)
\* url.trim() on the urls of this model
Trim(url) == IF url = " " THEN "" ELSE url

\* the filter without the trim: a blank url counts as configured
EnabledSourcesUntrimmed(s) ==
    SelectSeq(s.calendars, LAMBDA c : c.enabled /\ c.url # "")

\* (this.settings as any).calendars?.filter(c => c.enabled && c.url && c.url.trim()) ?? []
EnabledSources(s) ==
    SelectSeq(s.calendars, LAMBDA c : c.enabled /\ c.url # "" /\ Trim(c.url) # "")

\* local midnight of the day of instant t: setHours(0, 0, 0, 0)
StartOfLocalDay(t) ==
    LET wall == t + ZoneOffset(localZone, t)
    IN  WallToInstant(localZone, wall - (wall % MsPerDay))

\* setHours(23, 59, 59, 999)
EndOfLocalDay(t) ==
    LET wall == t + ZoneOffset(localZone, t)
    IN  WallToInstant(localZone, wall - (wall % MsPerDay) + MsPerDay - 1)

\* a settings field that is undefined (or null) in the loaded data; the
\* settings tab stores no negative number
Unset == -1

\* lines 310-337: the expansion bounds and the widened filter window
Window(s, clock) ==
    LET daysBefore == IF s.daysBefore = Unset THEN 0 ELSE s.daysBefore
        daysAhead == IF s.daysAhead = Unset THEN 7 ELSE s.daysAhead
        Widened(startBoundary, endBoundary) ==
            [ startBoundary |-> startBoundary, endBoundary |-> endBoundary,
              startBoundaryUTC |->
                  DateParseISO(toISOString(startBoundary - 12 * 3600 * 1000)),
              endBoundaryUTC |->
                  DateParseISO(toISOString(endBoundary + 12 * 3600 * 1000)) ]
        Bounds(startLocal) ==
            Widened(startLocal - daysBefore * 24 * 3600 * 1000,
                    EndOfLocalDay(startLocal + daysAhead * 24 * 3600 * 1000))
    IN  Bounds(StartOfLocalDay(clock))

\* every event tagged with the first configured source
WithMetaOfFirst(rawEvents, src) ==
    [ i \in 1..Len(rawEvents) |->
        [ id |-> rawEvents[i].id, subject |-> rawEvents[i].subject,
          start |-> rawEvents[i].start, end |-> rawEvents[i].end,
          location |-> rawEvents[i].location,
          isRecurring |-> rawEvents[i].isRecurring, raw |-> rawEvents[i].raw,
          calendarId |-> settings.calendars[1].id,
          calendarName |-> settings.calendars[1].name,
          color |-> settings.calendars[1].color ] ]

\* rawEvents.map(e => ({...e, calendarId, calendarName, color}))
WithMeta(rawEvents, src) ==
    [ i \in 1..Len(rawEvents) |->
        [ id |-> rawEvents[i].id, subject |-> rawEvents[i].subject,
          start |-> rawEvents[i].start, end |-> rawEvents[i].end,
          location |-> rawEvents[i].location,
          isRecurring |-> rawEvents[i].isRecurring, raw |-> rawEvents[i].raw,
          calendarId |-> src.id, calendarName |-> src.name,
          color |-> IF src.color = "" THEN "#4A90E2" ELSE src.color ] ]

\* /^\d{4}-\d{2}-\d{2}T00:00:00\.000Z$/.test(ev.start)
IsAllDay(ev) == ev.start[4] = 0 /\ ev.start[5] = 0 /\ ev.start[6] = 0 /\ ev.start[7] = 0

\* the instants the filter compares (lines 366-385).  Every start is an
\* output of toISOString and ends in "Z", so the shift of lines 370-374 for
\* strings without "Z" never applies.
FilterStart(ev) == DateParseISO(ev.start)
\* the end as written, no day subtracted
FilterEndNominal(ev) == DateParseISO(ev.end)

FilterEnd(ev) ==
    LET start == DateParseISO(ev.start)
        end == DateParseISO(ev.end)
    IN  IF IsAllDay(ev) /\ end > start THEN end - 24 * 3600 * 1000 ELSE end

\* the test without its third case
IncludeWithoutSpan(ev, startBoundaryUTC, endBoundaryUTC) ==
    LET startTime == FilterStart(ev)
        endTime == FilterEnd(ev)
    IN  \/ (startTime >= startBoundaryUTC /\ startTime <= endBoundaryUTC)
        \/ (endTime >= startBoundaryUTC /\ endTime <= endBoundaryUTC)

\* the callback of allEvents.filter (lines 365-394)
Include(ev, startBoundaryUTC, endBoundaryUTC) ==
    LET startTime == FilterStart(ev)
        endTime == FilterEnd(ev)
    IN  \/ (startTime >= startBoundaryUTC /\ startTime <= endBoundaryUTC)
        \/ (endTime >= startBoundaryUTC /\ endTime <= endBoundaryUTC)
        \/ (startTime <= startBoundaryUTC /\ endTime >= endBoundaryUTC)

RECURSIVE Flat(_, _)
Flat(results, i) ==
    IF i > Len(results) THEN <<>> ELSE results[i] \o Flat(results, i + 1)

\* the merge without the final sort
MergeFilterUnsorted(results, c) ==
    SelectSeq(Flat(results, 1),
              LAMBDA ev : Include(ev, c.startBoundaryUTC, c.endBoundaryUTC))

\* lines 362-398: merge, filter, sort
MergeFilterSort(results, c) ==
    SortByStart(SelectSeq(Flat(results, 1),
                          LAMBDA ev : Include(ev, c.startBoundaryUTC, c.endBoundaryUTC)))

NoReturn == [kind |-> "none", events |-> <<>>, message |-> ""]
NoCall ==
    [ sources |-> <<>>, startBoundary |-> 0, endBoundary |-> 0,
      startBoundaryUTC |-> 0, endBoundaryUTC |-> 0 ]
NoFirstCall ==
    [ completed |-> FALSE, settings |-> <<>>, served |-> <<>>, now |-> 0,
      returned |-> NoReturn, other |-> FALSE, repeated |-> FALSE ]

\* the first invocation to complete, with the inputs it ran on; repeated:
\* an invocation on other inputs, then one on these inputs have completed
Remember(outcome) ==
    IF ~firstCall.completed
    THEN [ completed |-> TRUE, settings |-> settings, served |-> served,
           now |-> now, returned |-> outcome, other |-> FALSE,
           repeated |-> FALSE ]
    ELSE IF firstCall.settings = settings /\ firstCall.served = served
            /\ firstCall.now = now
    THEN [firstCall EXCEPT !.repeated = firstCall.other]
    ELSE [firstCall EXCEPT !.other = TRUE]

\* fetchEvents is called (lines 298-342): either the configuration error, or
\* the window is computed and requestUrl is called once per source
FetchEvents ==
    /\ pc # "fetching"
    /\ pending = {}
    /\ LET sources == EnabledSources(settings)
       IN  IF Len(sources) = 0
           THEN /\ pc' = "rejected"
                /\ returned' = [ kind |-> "error", events |-> <<>>,
                                 message |-> "No enabled calendars configured." ]
                /\ call' = NoCall
                /\ requested' = <<>>
                /\ settled' = <<>>
                /\ allResults' = <<>>
                /\ pending' = {}
                /\ firstCall' = Remember(returned')
           ELSE /\ pc' = "fetching"
                /\ returned' = NoReturn
                /\ call' = [ sources |-> sources ] @@ Window(settings, now)
                /\ requested' = [i \in 1..Len(sources) |-> sources[i].url]
                /\ settled' = <<>>
                /\ allResults' = [i \in 1..Len(sources) |-> <<>>]
                /\ pending' = 1..Len(sources)
                /\ firstCall' = firstCall
    /\ atCall' = settings
    /\ UNCHANGED uiVars
    /\ UNCHANGED << localZone, now, settings, served, recurringMasters,
                    cancelledInstances, overrideInstances >>

\* await Promise.all(...) rejects with the first rejection; the catch block
\* (lines 399-402) rethrows
Rethrow ==
    IF pc = "fetching"
    THEN /\ pc' = "rejected"
         /\ returned' = [ kind |-> "error", events |-> <<>>,
                          message |-> "Unable to load iCal feeds" ]
         /\ firstCall' = Remember(returned')
    ELSE UNCHANGED << pc, returned, firstCall >>

\* a response without events counts as a failed request
ResolvesWithEvents(response) == response.ok /\ response.text # <<>>

\* line 342: await requestUrl({ url: src.url }) resolves (it throws otherwise)
Resolves(response) == response.ok

\* the requestUrl of source i settles and the rest of the async callback of
\* sources.map runs (lines 342-358)
RequestSettles(i) ==
    /\ i \in pending
    /\ pending' = pending \ {i}
    /\ settled' = Append(settled, i)
    /\ LET Settle(src, response, parsed) ==
               IF ~Resolves(response)
               THEN /\ Rethrow
                    /\ UNCHANGED << allResults, recurringMasters, cancelledInstances,
                                    overrideInstances >>
               ELSE IF response.text = <<>>
               THEN UNCHANGED << pc, returned, firstCall, allResults,
                                 recurringMasters, cancelledInstances,
                                 overrideInstances >>
               ELSE /\ recurringMasters' = parsed.masters
                    /\ cancelledInstances' = parsed.cancelled
                    /\ overrideInstances' = parsed.overrides
                    /\ IF parsed.threw
                       THEN Rethrow /\ UNCHANGED allResults
                       ELSE /\ allResults' =
                                  [allResults EXCEPT
                                      ![i] = WithMeta(parsed.events, src)]
                            /\ UNCHANGED << pc, returned, firstCall >>
           Respond(src, response) ==
               Settle(src, response,
                      parseICS(response.text, call.startBoundary, call.endBoundary,
                               [ masters |-> recurringMasters,
                                 cancelled |-> cancelledInstances,
                                 overrides |-> overrideInstances ]))
           Request(src) == Respond(src, served[src.url])
       IN  Request(call.sources[i])
    /\ UNCHANGED << localZone, now, settings, served, call, requested, atCall,
                    uiVars >>

\* the merge not waiting for the callbacks
AllSettledEarly ==
    /\ pc = "fetching"
    /\ pc' = "resolved"
    /\ returned' = [ kind |-> "events", events |-> MergeFilterSort(allResults, call),
                     message |-> "" ]
    /\ firstCall' = Remember(returned')
    /\ UNCHANGED << localZone, now, settings, served, call, pending, allResults,
                    requested, settled, recurringMasters, cancelledInstances,
                    overrideInstances, atCall, uiVars >>

\* every callback has resolved: Promise.all resolves and lines 362-398 run
AllSettled ==
    /\ pc = "fetching"
    /\ pending = {}
    /\ pc' = "resolved"
    /\ returned' = [ kind |-> "events", events |-> MergeFilterSort(allResults, call),
                     message |-> "" ]
    /\ firstCall' = Remember(returned')
    /\ UNCHANGED << localZone, now, settings, served, call, pending, allResults,
                    requested, settled, recurringMasters, cancelledInstances,
                    overrideInstances, atCall, uiVars >>

(***************************************************************************)
(* The inputs of the model: settings, feeds, clocks.                       *)
(***************************************************************************)
MaxDaysBefore == 1
MaxDaysAhead == 1

Source(id, name, url, color, enabled) ==
    [id |-> id, name |-> name, url |-> url, color |-> color, enabled |-> enabled]

Work(url, enabled) == Source("c1", "Work", url, "#ff0000", enabled)
Home(url, enabled) == Source("c2", "Home", url, "", enabled)

Urls == {"u1", "u2"}

\* utils/tzidMap.ts 141-152, DEFAULT_SETTINGS: sortOrder "asc", pinToday true
Settings(calendars, daysBefore, daysAhead) ==
    [ calendars |-> calendars, daysBefore |-> daysBefore, daysAhead |-> daysAhead,
      sortOrder |-> "asc", pinToday |-> TRUE ]

\* requestUrl throws: network error or a status of 400 and above
Reject == [ok |-> FALSE, text |-> <<>>]
Answer(text) == [ok |-> TRUE, text |-> text]

\* a DTSTART, DTEND or RECURRENCE-ID line in one of the forms
\*   "date"      NAME;VALUE=DATE:202503DD
\*   "utc"       NAME:202503DDTHH0000Z
\*   "floating"  NAME:202503DDTHH0000
\*   a zone id   NAME;TZID=zone:202503DDTHH0000
DateProp(name, form, d, hh) ==
    CASE form = "date" -> Line(name, DateValue(3, d))
      [] form = "utc" -> Line(name, UtcValue(3, d, hh, 0))
      [] form = "floating" -> Line(name, LocalValue(3, d, hh, 0))
      [] OTHER -> ZonedLine(name, form, LocalValue(3, d, hh, 0))

\* the end of a one-hour event (of a one-day event in the date form)
EndProp(form, d, hh) ==
    IF form = "date" THEN DateProp("DTEND", form, d + 1, 0)
    ELSE DateProp("DTEND", form, d, hh + 1)

StandaloneBlock(uid, summary, form, d, hh, durDays, durHours) ==
    << Line("UID", uid), Line("SUMMARY", summary), Line("LOCATION", "Desk"),
       DateProp("DTSTART", form, d, hh),
       DateProp("DTEND", form, d + durDays, hh + durHours) >>

MasterBlock(uid, form, d, hh, rrule) ==
    << Line("UID", uid), Line("SUMMARY", "Standup"), Line("LOCATION", "Room 1"),
       DateProp("DTSTART", form, d, hh), EndProp(form, d, hh), Line("RRULE", rrule) >>

CancelBlock(uid, form, d, hh) ==
    << Line("UID", uid), Line("SUMMARY", "Standup"),
       DateProp("DTSTART", form, d, hh), EndProp(form, d, hh),
       DateProp("RECURRENCE-ID", form, d, hh), Line("STATUS:CANCELLED", "") >>

\* the occurrence of day d moved two hours later (two days later in the
\* date form), with its own summary and location
OverrideStartDay(form, d) == IF form = "date" THEN d + 2 ELSE d
OverrideStartHour(form, hh) == IF form = "date" THEN 0 ELSE hh + 2

OverrideBlock(uid, form, d, hh) ==
    << Line("UID", uid), Line("SUMMARY", "Standup (moved)"), Line("LOCATION", "Room 2"),
       DateProp("DTSTART", form, OverrideStartDay(form, d), OverrideStartHour(form, hh)),
       EndProp(form, OverrideStartDay(form, d), OverrideStartHour(form, hh)),
       DateProp("RECURRENCE-ID", form, d, hh) >>

\* a series that starts on Monday 2025-03-03 at 09:00 wall-clock time, and
\* possibly one more block for its occurrence of day d
RecurringFeed(form, rrule, extra, d) ==
    << MasterBlock("A", form, 3, 9, rrule) >>
    \o (CASE extra = "cancel" -> << CancelBlock("A", form, d, 9) >>
          [] extra = "override" -> << OverrideBlock("A", form, d, 9) >>
          [] OTHER -> <<>>)

SeriesForms == {"date", "utc", "America/New_York", "Asia/Tokyo"}
SeriesRules == {"FREQ=DAILY", "FREQ=WEEKLY"}
SeriesExtras == {"none", "cancel", "override"}
\* the days RECURRENCE-ID names: 2025-03-08 .. 2025-03-11
NamedDays == 8..11

EventForms == {"date", "UTC"}
EventDays == {4, 7, 9, 11, 13, 14}
EventHours == {0, 9}
\* durations as <<days, hours>>
EventDurations == { <<0 - 2, 0>>, <<0, 0>>, <<0, 1>>, <<1, 0>>, <<2, 0>>, <<10, 0>> }

StandaloneFeed(form, d, hh, dur) ==
    << StandaloneBlock("S", "Visit", form, d, hh, dur[1], dur[2]) >>

\* three one-hour events on 2025-03-10
ThreeEvents ==
    << StandaloneBlock("E1", "One", "UTC", 10, 9, 0, 1),
       StandaloneBlock("E2", "Two", "UTC", 10, 17, 0, 1),
       StandaloneBlock("E3", "Three", "UTC", 10, 13, 0, 1) >>

Clocks == { DateUTC(2025, 3, 8, 15, 0, 0), DateUTC(2025, 3, 10, 15, 0, 0) }
LocalZones == {"Etc/UTC", "America/New_York"}

\* the feeds of the specification with repeated invocations
SeriesFeed ==
    << MasterBlock("A", "UTC", 3, 9, "FREQ=DAILY"),
       StandaloneBlock("B", "Lunch", "UTC", 10, 12, 0, 1) >>
ExceptionsFeed ==
    << CancelBlock("A", "UTC", 10, 9), OverrideBlock("A", "UTC", 11, 9),
       StandaloneBlock("C", "Dinner", "UTC", 10, 19, 0, 1) >>

RepeatResponses == { Reject, Answer(SeriesFeed), Answer(ExceptionsFeed) }
RepeatSettings ==
    { Settings(<< Work("u1", TRUE), Home("u2", e) >>, 0, 1) : e \in BOOLEAN }

\* before anything was typed into the settings tab
NoEdit == [field |-> "", text |-> "", edits |-> 0]
\* a CalendarView as constructed (main.ts 422-431), its container empty:
\*   events, lastUpdated (updated: it is not null), updateTimer (0: null),
\*   hidden (the ids with visibleCalendars[id] === false) are its fields;
\*   screen, label, sections say what the container shows: the loading text
\*   or the rendered view, the text of the "updated" line, the keys of the
\*   day sections in order; order, pinned and today are the sort order, the
\*   pin setting and the day the sections were drawn with
NewView ==
    [ open |-> TRUE, screen |-> "none", events |-> <<>>, updated |-> FALSE,
      lastUpdated |-> 0, updateTimer |-> 0, hidden |-> {}, label |-> "",
      sections |-> <<>>, order |-> "asc", pinned |-> FALSE, today |-> 0 ]
\* no leaf of the view's type is open
ClosedView == [NewView EXCEPT !.open = FALSE]
NoIntervals == {}
\* calls: fetchEvents calls made so far; inflight: those not yet settled;
\* latest: what the call made last settled with (<<>>: it has not)
NoFetches == [calls |-> 0, inflight |-> {}, latest |-> <<>>]

IdleClient ==
    /\ atCall = Settings(<<>>, 0, 0)
    /\ pc = "idle"
    /\ call = NoCall
    /\ pending = {}
    /\ allResults = <<>>
    /\ requested = <<>>
    /\ settled = <<>>
    /\ returned = NoReturn
    /\ recurringMasters = <<>>
    /\ cancelledInstances = <<>>
    /\ overrideInstances = <<>>
    /\ firstCall = NoFirstCall

Idle ==
    /\ IdleClient
    /\ tab = NoEdit
    /\ view = ClosedView
    /\ intervals = NoIntervals
    /\ fetches = NoFetches

Init ==
    /\ localZone = "America/New_York"
    /\ now \in Clocks
    /\ settings \in RepeatSettings
    /\ served \in [Urls -> RepeatResponses]
    /\ Idle

\* between two invocations: the user edits the settings, a server changes
\* its feed, time passes
EditSettings ==
    /\ pc # "fetching" /\ pending = {}
    /\ \E s \in RepeatSettings : s # settings /\ settings' = s
    /\ UNCHANGED << localZone, now, served, pc, call, pending, allResults, requested,
                    settled, returned, recurringMasters, cancelledInstances,
                    overrideInstances, firstCall, atCall, uiVars >>

ServerChanges ==
    /\ pc # "fetching" /\ pending = {}
    /\ \E u \in Urls, r \in RepeatResponses :
            served[u] # r /\ served' = [served EXCEPT ![u] = r]
    /\ UNCHANGED << localZone, now, settings, pc, call, pending, allResults,
                    requested, settled, returned, recurringMasters, cancelledInstances,
                    overrideInstances, firstCall, atCall, uiVars >>

ClockChanges ==
    /\ pc # "fetching" /\ pending = {}
    /\ \E c \in Clocks : c # now /\ now' = c
    /\ UNCHANGED << localZone, settings, served, pc, call, pending, allResults,
                    requested, settled, returned, recurringMasters, cancelledInstances,
                    overrideInstances, firstCall, atCall, uiVars >>

Next ==
    \/ FetchEvents
    \/ \E i \in 1..2 : RequestSettles(i)
    \/ AllSettled
    \/ EditSettings
    \/ ServerChanges
    \/ ClockChanges

Spec == Init /\ [][Next]_vars

(***************************************************************************)
(* One environment, many feeds: the settings, the clock and the feeds stay *)
(* as Init chose them.                                                     *)
(***************************************************************************)
SourceUrls == {"u1", "u2", "", " "}
SourceResponses == { Reject, Answer(<<>>), Answer(ThreeEvents) }

\* two configured sources, each enabled or not, with a url or a blank one
InitSources ==
    /\ localZone = "America/New_York"
    /\ now = DateUTC(2025, 3, 10, 15, 0, 0)
    /\ \E u1 \in SourceUrls \ {"u2"}, u2 \in SourceUrls \ {"u1"}, e1 \in BOOLEAN,
          e2 \in BOOLEAN :
            settings = Settings(<< Work(u1, e1), Home(u2, e2) >>, 0, 1)
    /\ served \in [SourceUrls -> SourceResponses]

OneSource(daysBefore, daysAhead) ==
    Settings(<< Work("u1", TRUE) >>, daysBefore, daysAhead)
OneFeed(text) == [u \in SourceUrls |-> IF u = "u1" THEN Answer(text) ELSE Reject]

\* one source whose feed is a recurring series
InitSeries ==
    /\ localZone \in LocalZones
    /\ now \in Clocks
    /\ \E b \in 0..MaxDaysBefore, a \in 0..MaxDaysAhead : settings = OneSource(b, a)
    /\ \E form \in SeriesForms, rrule \in SeriesRules, extra \in SeriesExtras,
          d \in NamedDays :
            served = OneFeed(RecurringFeed(form, rrule, extra, d))

\* one source whose feed is a single event
InitEvent ==
    /\ localZone \in LocalZones
    /\ now \in Clocks
    /\ \E b \in 0..MaxDaysBefore, a \in 0..MaxDaysAhead : settings = OneSource(b, a)
    /\ \E form \in EventForms, d \in EventDays, hh \in EventHours,
          dur \in EventDurations :
            served = OneFeed(StandaloneFeed(form, d, hh, dur))

\* One block put together from its parts: uid ("": no UID line), the form of
\* DTSTART ("bad": a text that is no date), the RRULE text ("": no RRULE
\* line), the form of RECURRENCE-ID ("none": no such line) and the
\* STATUS:CANCELLED line.  DTSTART is 2025-03-10 09:00, RECURRENCE-ID names
\* 2025-03-11 09:00.
PropOrBad(name, form, d, hh) ==
    IF form = "bad" THEN Line(name, BadValue) ELSE DateProp(name, form, d, hh)

BlockOf(uid, startForm, rrule, ridForm, canceled) ==
    (IF uid = "" THEN <<>> ELSE << Line("UID", uid) >>)
    \o << Line("SUMMARY", "Probe"), Line("LOCATION", "Lab"),
          PropOrBad("DTSTART", startForm, 10, 9) >>
    \o (IF rrule = "" THEN <<>> ELSE << Line("RRULE", rrule) >>)
    \o (IF ridForm = "none" THEN <<>>
        ELSE << PropOrBad("RECURRENCE-ID", ridForm, 11, 9) >>)
    \o (IF canceled THEN << Line("STATUS:CANCELLED", "") >> ELSE <<>>)

\* "A" is the UID of the master of SeriesFeed
BlockUids == {"", "P", "A"}
\* "Mars/Olympus": a TZID that names no zone of the runtime
BlockStartForms == {"UTC", "utc", "bad", "Mars/Olympus"}
BlockRules == {"", "FREQ=DAILY", "FREQ=BOGUS"}
BlockRidForms == {"none", "UTC", "utc", "bad"}
\* the blocks the probe block is added to
BaseFeeds == { <<>>, SeriesFeed }

\* one source whose feed is a base feed followed by one more block
InitBlocks ==
    /\ localZone = "America/New_York"
    /\ now = DateUTC(2025, 3, 10, 15, 0, 0)
    /\ settings = OneSource(0, 1)
    /\ \E base \in BaseFeeds, uid \in BlockUids, startForm \in BlockStartForms,
          rrule \in BlockRules, ridForm \in BlockRidForms, canceled \in BOOLEAN :
            served = OneFeed(base \o << BlockOf(uid, startForm, rrule, ridForm,
                                                canceled) >>)

\* one source whose feed is a one-hour event given as a wall-clock time of a
\* zone (or as a floating time), on the days around the change of 2025-03-09
ZonedForms == {"America/New_York", "Asia/Tokyo", "floating"}
ZonedDays == {8, 9, 10}
\* 02:00 to 02:59 of 2025-03-09 do not exist in New York
ZonedHours == {1, 3, 5, 9}

ZonedEvent(form, d, hh) == StandaloneBlock("Z", "Call", form, d, hh, 0, 1)

\* Windows zone labels, as Outlook and Exchange write them
WindowsLabels ==
    {"Eastern Standard Time", "(UTC-05:00) Eastern Time (US & Canada)"}

InitZoned ==
    /\ localZone \in LocalZones
    /\ now = DateUTC(2025, 3, 8, 15, 0, 0)
    /\ settings = OneSource(1, 1)
    /\ \E form \in ZonedForms \cup WindowsLabels, d \in ZonedDays,
          hh \in ZonedHours :
            served = OneFeed(<< ZonedEvent(form, d, hh) >>)

\* one source, on a day on which the local clock is set forward or back, with
\* the day counts set or left unset
WindowZones == {"Africa/Casablanca", "America/New_York"}
WindowClocks == { DateUTC(2025, 2, 23, 12, 0, 0), DateUTC(2025, 3, 9, 15, 0, 0) }

InitWindow ==
    /\ localZone \in WindowZones
    /\ now \in WindowClocks
    /\ \E b \in {Unset} \cup 0..MaxDaysBefore,
          a \in {Unset} \cup 0..MaxDaysAhead : settings = OneSource(b, a)
    /\ served = OneFeed(ThreeEvents)

\* two sources, each with a feed of its own; the feeds may use the same UID
PairFeeds == { SeriesFeed, ExceptionsFeed, ThreeEvents }

InitPair ==
    /\ localZone = "America/New_York"
    /\ now \in Clocks
    /\ settings = Settings(<< Work("u1", TRUE), Home("u2", TRUE) >>, 0, 1)
    /\ \E f1 \in PairFeeds, f2 \in PairFeeds :
            served = [u \in SourceUrls |->
                        CASE u = "u1" -> Answer(f1)
                          [] u = "u2" -> Answer(f2)
                          [] OTHER -> Reject]

InitFeeds ==
    ( InitSources \/ InitSeries \/ InitEvent \/ InitPair \/ InitBlocks
      \/ InitZoned \/ InitWindow ) /\ Idle

NextFeeds ==
    \/ FetchEvents
    \/ \E i \in 1..2 : RequestSettles(i)
    \/ AllSettled

SpecFeeds == InitFeeds /\ [][NextFeeds]_vars

(***************************************************************************)
(* The settings tab (utils/tzidMap.ts 154-339).  The tab, the plugin and   *)
(* the client hold the same settings object (main.ts 17, 104-108), and     *)
(* the array fetchEvents filters out of settings.calendars holds the same  *)
(* calendar objects: an assignment to a field of a calendar shows in       *)
(* call.sources.  The calendars of this model have distinct ids, which     *)
(* stand for the identity of their objects.                                *)
(***************************************************************************)
MaxEdits == 2

NaN == [nan |-> TRUE, n |-> 0]
Number(n) == [nan |-> FALSE, n |-> n]

\* what is typed into a number field
DayTexts == {ToString(n) : n \in 0..MaxDaysAhead} \cup {"", "abc", "-3", "1.5"}

\* parseInt(value) on the texts of this model
parseInt(text) ==
    IF \E n \in 0..MaxDaysAhead : ToString(n) = text
    THEN Number(CHOOSE n \in 0..MaxDaysAhead : ToString(n) = text)
    ELSE CASE text = "-3" -> Number(-3)
           [] text = "1.5" -> Number(1)
           [] OTHER -> NaN

\* parsed || fallback: NaN and 0 are falsy
OrElse(parsed, fallback) == IF parsed.nan \/ parsed.n = 0 THEN fallback ELSE parsed.n
MathMax(a, b) == IF a >= b THEN a ELSE b

Edited(field, text) == [field |-> field, text |-> text, edits |-> tab.edits + 1]

\* Days Before Today, onChange (utils/tzidMap.ts 257-261)
EditDaysBefore(text) ==
    /\ tab.edits < MaxEdits
    /\ settings' = [settings EXCEPT !.daysBefore = MathMax(OrElse(parseInt(text), 0), 0)]
    /\ tab' = Edited("daysBefore", text)
    /\ UNCHANGED << localZone, now, served, pc, call, pending, allResults, requested,
                    settled, returned, recurringMasters, cancelledInstances,
                    overrideInstances, firstCall, atCall, view, intervals, fetches >>

\* Days After Today, onChange (utils/tzidMap.ts 272-276)
EditDaysAfter(text) ==
    /\ tab.edits < MaxEdits
    /\ settings' = [settings EXCEPT !.daysAhead = MathMax(OrElse(parseInt(text), 7), 0)]
    /\ tab' = Edited("daysAhead", text)
    /\ UNCHANGED << localZone, now, served, pc, call, pending, allResults, requested,
                    settled, returned, recurringMasters, cancelledInstances,
                    overrideInstances, firstCall, atCall, view, intervals, fetches >>

\* cal[field] = v on the calendar object of row i: the object is also an
\* element of the sources array of a running invocation
AssignField(i, field, v) ==
    /\ tab.edits < MaxEdits
    /\ i \in 1..Len(settings.calendars)
    /\ settings.calendars[i][field] # v
    /\ settings' = [settings EXCEPT !.calendars[i][field] = v]
    /\ call' = [call EXCEPT !.sources =
                    [ k \in 1..Len(call.sources) |->
                        IF call.sources[k].id = settings.calendars[i].id
                        THEN [call.sources[k] EXCEPT ![field] = v]
                        ELSE call.sources[k] ]]
    /\ tab' = Edited(field, "")
    /\ UNCHANGED << localZone, now, served, pc, pending, allResults, requested,
                    settled, returned, recurringMasters, cancelledInstances,
                    overrideInstances, firstCall, atCall, view, intervals, fetches >>

CalendarNames == {"Work", "Home", "Job"}
CalendarColors == {"#ff0000", "", "#00ff00"}

\* the name, colour and enabled fields of a row, onChange (utils/tzidMap.ts 190-214)
EditName(i, v) == AssignField(i, "name", v)
EditColor(i, c) == AssignField(i, "color", c)
EditEnabled(i, v) == AssignField(i, "enabled", v)

\* Remove Calendar, onClick (utils/tzidMap.ts 220-223): calendars.splice(i, 1)
RemoveCalendar(i) ==
    /\ tab.edits < MaxEdits
    /\ i \in 1..Len(settings.calendars)
    /\ settings' = [settings EXCEPT !.calendars =
                        SubSeq(@, 1, i - 1) \o SubSeq(@, i + 1, Len(@))]
    /\ tab' = Edited("remove", "")
    /\ UNCHANGED << localZone, now, served, pc, call, pending, allResults, requested,
                    settled, returned, recurringMasters, cancelledInstances,
                    overrideInstances, firstCall, atCall, view, intervals, fetches >>

\* two sources with a feed each; the tab is open while fetchEvents runs
InitEdits ==
    /\ localZone = "America/New_York"
    /\ now = DateUTC(2025, 3, 10, 15, 0, 0)
    /\ settings = Settings(<< Work("u1", TRUE), Home("u2", TRUE) >>, 0, 1)
    /\ served = [u \in SourceUrls |->
                    CASE u = "u1" -> Answer(ThreeEvents)
                      [] u = "u2" -> Answer(SeriesFeed)
                      [] OTHER -> Reject]
    /\ Idle

NextEdits ==
    \/ FetchEvents
    \/ \E i \in 1..2 : RequestSettles(i)
    \/ AllSettled
    \/ \E i \in 1..2, v \in CalendarNames : EditName(i, v)
    \/ \E i \in 1..2, c \in CalendarColors : EditColor(i, c)
    \/ \E i \in 1..2, v \in BOOLEAN : EditEnabled(i, v)
    \/ \E i \in 1..2 : RemoveCalendar(i)
    \/ \E text \in DayTexts : EditDaysBefore(text)
    \/ \E text \in DayTexts : EditDaysAfter(text)

SpecEdits == InitEdits /\ [][NextEdits]_vars

(***************************************************************************)
(* The view (main.ts 410-912) and the commands (main.ts 22-75).  Here a    *)
(* fetchEvents call is a promise: the call fixes its sources and window    *)
(* and settles later, in one step, with what lines 340-402 of graph.ts     *)
(* give for the feeds served.  The servers do not change their feeds in    *)
(* this specification, so what a call settles with is fixed when it is     *)
(* made, and kept with the call.                                           *)
(***************************************************************************)
MaxCalls == 2

LocalDay(t) == (t + ZoneOffset(localZone, t)) \div MsPerDay
\* moment(ev.start).format("YYYY-MM-DD"), as the number of the local day
DayKey(ev) == LocalDay(DateParseISO(ev.start))

\* Object.keys(grouped).filter(Boolean).sort((a, b) => a.localeCompare(b) * sortOrder):
\* the day at place i has i - 1 days before it in the order
SortDays(days, order) ==
    [ i \in 1..Cardinality(days) |->
        CHOOSE d \in days :
            Cardinality({e \in days : IF order = "asc" THEN e < d ELSE e > d}) = i - 1 ]

\* today put first, its own place in the order kept as well
PinTodayKept(sortedDays, todayKey) == << todayKey >> \o sortedDays

\* lines 739-743: indexOf, splice, [todayKey, ...sortedDays]
PinToday(sortedDays, todayKey) ==
    << todayKey >> \o SelectSeq(sortedDays, LAMBDA day : day # todayKey)

\* lines 720-757: the keys of the day sections, in the order they are drawn
Sections(v) ==
    LET grouped ==
            { DayKey(v.events[k]) :
                k \in {j \in 1..Len(v.events) : v.events[j].calendarId \notin v.hidden} }
        Pinned(sortedDays) ==
            IF settings.pinToday THEN PinToday(sortedDays, LocalDay(now))
            ELSE sortedDays
    IN  CHOOSE drawn \in { Pinned(SortDays(days, settings.sortOrder)) :
                                days \in {grouped} } : TRUE

\* settings.calendars?.filter((c) => c.enabled).length > 0
CalendarsConfigured == \E i \in 1..Len(settings.calendars) : settings.calendars[i].enabled

\* updateLabel (lines 665-686) of the view's fields v, the timers active
UpdateLabel(v, active) ==
    LET Text(diffMinutes) ==
            IF diffMinutes < 1 THEN "Updated just now"
            ELSE IF diffMinutes < 60 THEN "Updated minutes ago"
            ELSE IF diffMinutes < 1440 THEN "Updated hours ago"
            ELSE ""
        Label(text) ==
            IF text # ""
            THEN [view |-> [v EXCEPT !.label = text], intervals |-> active]
            ELSE [ view |-> [v EXCEPT !.label = "", !.updateTimer = 0],
                   intervals |-> active \ {v.updateTimer} ]
    IN  Label(Text((now - v.lastUpdated) \div 60000))

\* the id window.setInterval returns: one that no active timer has
NewId(active) == Min({n \in 1..(Cardinality(active) + 1) : n \notin active})

\* lines 690-693: clearInterval(this.updateTimer) if set, then setInterval
ResetInterval(r) ==
    LET Set(cleared) ==
            [ view |-> [r.view EXCEPT !.updateTimer = NewId(cleared)],
              intervals |-> cleared \cup {NewId(cleared)} ]
    IN  CHOOSE reset \in
            { Set(cleared) : cleared \in {r.intervals \ {r.view.updateTimer}} } : TRUE

\* render() (lines 471-890) of the view's fields v
Render(v, active) ==
    LET Draw(r) ==
            [ view |-> [r.view EXCEPT !.screen = "rendered",
                                      !.sections = IF Len(v.events) = 0 THEN <<>>
                                                   ELSE Sections(v),
                                      !.order = settings.sortOrder,
                                      !.pinned = settings.pinToday,
                                      !.today = LocalDay(now)],
              intervals |-> r.intervals ]
    IN  IF CalendarsConfigured /\ v.updated
        THEN CHOOSE drawn \in
                { Draw(r) : r \in {ResetInterval(UpdateLabel(v, active))} } : TRUE
        ELSE Draw([view |-> [v EXCEPT !.label = ""], intervals |-> active])

\* setEvents(events) (lines 437-457)
SetEvents(v, active, events) ==
    Render([v EXCEPT !.events = events, !.updated = TRUE, !.lastUpdated = now], active)

\* showLoading(message) (lines 460-469)
ShowLoading(v) == [v EXCEPT !.screen = "loading", !.sections = <<>>, !.label = ""]

\* the catch of the Refresh button's handler shows a notice and no more
RefreshFailedNoticeOnly(v, active) == [view |-> v, intervals |-> active]

\* lines 579-583: the catch of the Refresh button's handler
RefreshFailed(v, active) == SetEvents(v, active, <<>>)

\* what a fetchEvents call with sources f.sources and window f.win settles with
FetchOutcome(f) ==
    LET Rejected == [ok |-> FALSE, events |-> <<>>]
        Merge(parsed) ==
            IF \E i \in 1..Len(parsed) : parsed[i].threw THEN Rejected
            ELSE [ ok |-> TRUE,
                   events |->
                     MergeFilterSort([i \in 1..Len(parsed) |->
                                        WithMeta(parsed[i].events, f.sources[i])],
                                     f.win) ]
    IN  IF Len(f.sources) = 0 THEN Rejected
        ELSE IF \E i \in 1..Len(f.sources) : ~Resolves(served[f.sources[i].url])
        THEN Rejected
        ELSE Merge([i \in 1..Len(f.sources) |->
                      parseICS(served[f.sources[i].url].text, f.win.startBoundary,
                               f.win.endBoundary, FreshMaps(<<>>))])

\* this.calendar.fetchEvents() is called by a handler of this origin
Started(origin) ==
    [ calls |-> fetches.calls + 1,
      inflight |-> fetches.inflight \cup
            { [ n |-> fetches.calls + 1, origin |-> origin,
                outcome |-> FetchOutcome([ sources |-> EnabledSources(settings),
                                           win |-> Window(settings, now) ]) ] },
      latest |-> <<>> ]

unchangedClient ==
    UNCHANGED << localZone, served, pc, call, pending, allResults, requested,
                 settled, returned, recurringMasters, cancelledInstances,
                 overrideInstances, firstCall, atCall >>

\* the Refresh button is clicked (lines 562-577, up to the await)
RefreshClick ==
    /\ view.open /\ view.screen = "rendered"
    /\ IF ~CalendarsConfigured
       THEN /\ LET Show(shown) == \E r \in {shown} : view' = r.view /\ intervals' = r.intervals
               IN  Show(SetEvents(view, intervals, <<>>))
            /\ UNCHANGED fetches
       ELSE /\ fetches.calls < MaxCalls
            /\ view' = ShowLoading(view)
            /\ fetches' = Started("refresh")
            /\ UNCHANGED intervals
    /\ UNCHANGED << now, settings, tab >>
    /\ unchangedClient

\* command "Refresh Calendar Events" (main.ts 27-29, up to the await)
RefreshCommand ==
    /\ view.open
    /\ fetches.calls < MaxCalls
    /\ fetches' = Started("command")
    /\ UNCHANGED << now, settings, tab, view, intervals >>
    /\ unchangedClient

\* command "Toggle Sort Order" (main.ts 67-72, up to the await of the fetch)
ToggleSortCommand ==
    /\ view.open
    /\ fetches.calls < MaxCalls
    /\ settings' = [settings EXCEPT
                        !.sortOrder = IF @ = "asc" THEN "desc" ELSE "asc"]
    /\ fetches' = Started("sort")
    /\ UNCHANGED << now, tab, view, intervals >>
    /\ unchangedClient

\* the promise of call n settles and the handler that awaits it goes on:
\* the Refresh button (lines 576-583), the commands (main.ts 29-33, 72-73)
FetchSettles(n) ==
    /\ \E f \in fetches.inflight :
        /\ f.n = n
        /\ LET Show(shown) == \E r \in {shown} : view' = r.view /\ intervals' = r.intervals
               Continue(outcome) ==
                   /\ fetches' =
                         [ fetches EXCEPT
                             !.inflight = @ \ {f},
                             !.latest = IF n = fetches.calls THEN << outcome >>
                                        ELSE @ ]
                   /\ IF outcome.ok
                      THEN Show(SetEvents(view, intervals, outcome.events))
                      ELSE IF f.origin = "refresh"
                      THEN Show(RefreshFailed(view, intervals))
                      ELSE UNCHANGED << view, intervals >>
           IN  Continue(f.outcome)
    /\ UNCHANGED << now, settings, tab >>
    /\ unchangedClient

\* a button of the toggle bar is clicked (lines 510-516)
ToggleCalendar(id) ==
    /\ view.open /\ view.screen = "rendered"
    /\ Len(SelectSeq(settings.calendars, LAMBDA c : c.enabled)) > 1
    /\ \E i \in 1..Len(settings.calendars) :
            settings.calendars[i].enabled /\ settings.calendars[i].id = id
    /\ LET Show(shown) == \E r \in {shown} : view' = r.view /\ intervals' = r.intervals
           Toggled(hidden) == Show(Render([view EXCEPT !.hidden = hidden], intervals))
       IN  Toggled(IF id \in view.hidden THEN view.hidden \ {id}
                   ELSE view.hidden \cup {id})
    /\ UNCHANGED << now, settings, tab, fetches >>
    /\ unchangedClient

\* the callback of an active interval runs: updateLabel (lines 665-686)
TimerFires(id) ==
    /\ id \in intervals
    /\ LET Show(shown) == \E r \in {shown} : view' = r.view /\ intervals' = r.intervals
       IN  Show(UpdateLabel(view, intervals))
    /\ UNCHANGED << now, settings, tab, fetches >>
    /\ unchangedClient

\* a day passes
ViewClocks == { DateUTC(2025, 3, 10, 15, 0, 0), DateUTC(2025, 3, 11, 15, 0, 0) }
ClockTicks ==
    /\ now + MsPerDay \in ViewClocks
    /\ now' = now + MsPerDay
    /\ UNCHANGED << settings, tab, view, intervals, fetches >>
    /\ unchangedClient

\* the plugin is unloaded (main.ts 125-128): detachLeavesOfType closes the
\* view; neither the plugin nor the view has code that clears the interval
Unload ==
    /\ view.open
    /\ fetches.inflight = {}
    /\ view' = [view EXCEPT !.open = FALSE, !.screen = "none", !.sections = <<>>,
                            !.label = ""]
    /\ UNCHANGED << now, settings, tab, intervals, fetches >>
    /\ unchangedClient

\* the feeds of the two sources: events of 2025-03-10, -12 and -13
WorkFeed ==
    << StandaloneBlock("E1", "One", "UTC", 10, 16, 0, 1),
       StandaloneBlock("E2", "Two", "UTC", 12, 16, 0, 1),
       StandaloneBlock("E3", "Three", "UTC", 13, 16, 0, 1) >>
HomeFeed == << StandaloneBlock("H1", "Dinner", "UTC", 10, 23, 0, 1) >>

ViewCalendars ==
    { <<>>, << Work("", TRUE) >>, << Work("u1", TRUE) >>,
      << Work("u1", TRUE), Home("u2", TRUE) >> }

\* main.ts 111-121: the event onLayoutReady pushes to the view
DemoEvent ==
    [ id |-> << "demo1", <<>> >>, subject |-> "Test Event", start |-> toISOString(now),
      end |-> toISOString(now + 60 * 60 * 1000), location |-> "Obsidian Test",
      isRecurring |-> FALSE, raw |-> <<>>, calendarId |-> "", calendarName |-> "",
      color |-> "" ]

\* the state onload and onLayoutReady leave (main.ts 11-121): the view is
\* open and shows the demo event
InitView ==
    /\ localZone = "America/New_York"
    /\ now = DateUTC(2025, 3, 10, 15, 0, 0)
    /\ \E calendars \in ViewCalendars : settings = Settings(calendars, 0, 2)
    /\ \E home \in {Reject, Answer(HomeFeed)} :
            served = [u \in SourceUrls |->
                        CASE u = "u1" -> Answer(WorkFeed)
                          [] u = "u2" -> home
                          [] OTHER -> Reject]
    /\ IdleClient
    /\ tab = NoEdit
    /\ fetches = NoFetches
    /\ view = SetEvents(NewView, NoIntervals, << DemoEvent >>).view
    /\ intervals = SetEvents(NewView, NoIntervals, << DemoEvent >>).intervals

NextView ==
    \/ RefreshClick
    \/ RefreshCommand
    \/ ToggleSortCommand
    \/ \E n \in 1..MaxCalls : FetchSettles(n)
    \/ \E id \in {"c1", "c2"} : ToggleCalendar(id)
    \/ \E id \in 1..2 : TimerFires(id)
    \/ ClockTicks
    \/ Unload

SpecView == InitView /\ [][NextView]_vars

\* every promise settles: requestUrl answers or fails
SpecViewLive ==
    SpecView /\ \A n \in 1..MaxCalls : WF_vars(FetchSettles(n))

(***************************************************************************)
(* Properties                                                              *)
(***************************************************************************)
Usable(c) == c.enabled /\ c.url \notin {"", " "}
Healthy(c) == Usable(c) /\ served[c.url].ok /\ served[c.url].text # <<>>
Failing(c) == Usable(c) /\ ~served[c.url].ok
Calendars == {settings.calendars[i] : i \in 1..Len(settings.calendars)}
Returned == {returned.events[k] : k \in 1..Len(returned.events)}
InWindow(t) == call.startBoundaryUTC <= t /\ t <= call.endBoundaryUTC

\* C1: with two or more enabled sources of which one fails to load and
\* another answers a valid feed, fetchEvents does not throw: it resolves, no
\* returned event comes from the failing source, and each healthy source
\* contributes its events of the window.
C1_FailingSourceContributesNothing ==
    ( /\ pc # "idle" /\ pc # "fetching"
      /\ \E c \in Calendars : Failing(c)
      /\ \E c \in Calendars : Healthy(c) )
    => /\ returned.kind = "events"
       /\ \A ev \in Returned : \A c \in Calendars : Failing(c) => ev.calendarId # c.id
       /\ \A c \in Calendars :
            Healthy(c) /\ served[c.url].text = ThreeEvents
                => Cardinality({ev \in Returned : ev.calendarId = c.id}) = 3

\* C2: when no source is enabled with a url that is non-empty after trim, the
\* invocation rejects with the configuration error and hands no url to
\* requestUrl; and every url handed to requestUrl is the url of an enabled
\* source with a non-empty url.
C2_NoRequestWithoutUsableSource ==
    pc # "idle" =>
        /\ (\A c \in Calendars : ~Usable(c))
              => /\ pc = "rejected"
                 /\ returned.kind = "error"
                 /\ returned.message = "No enabled calendars configured."
                 /\ requested = <<>>
        /\ \A k \in 1..Len(requested) :
              \E c \in Calendars : Usable(c) /\ c.url = requested[k]

\* an enabled source with a blank url next to a disabled one: nothing requested
C2_Witness ==
    /\ pc = "rejected"
    /\ returned.message = "No enabled calendars configured."
    /\ requested = <<>>
    /\ \E c \in Calendars : c.enabled /\ c.url = " "
    /\ \E c \in Calendars : ~c.enabled /\ c.url \in Urls

\* C3: the returned list is sorted non-decreasing by start instant.
C3_SortedByStart ==
    returned.kind = "events" =>
        \A k \in 1..(Len(returned.events) - 1) :
            DateParseISO(returned.events[k].start)
                <= DateParseISO(returned.events[k + 1].start)

\* two sources merged: the concatenation of their events is out of order, the
\* returned list holds all six
C3_Witness ==
    /\ pc = "resolved"
    /\ Len(returned.events) = 6
    /\ \E k \in 1..5 :
          DateParseISO(Flat(allResults, 1)[k].start)
              > DateParseISO(Flat(allResults, 1)[k + 1].start)

\* What the blocks of RecurringFeed mean (RFC 5545): the instant of the wall
\* time 09:00 (date form: of 00:00Z) of day d in the zone of the form, and
\* whether the series has an occurrence on day d.
WallInstant(form, d, hh) ==
    CASE form = "date" -> DateUTC(2025, 3, d, 0, 0, 0)
      [] form = "utc" -> DateUTC(2025, 3, d, hh, 0, 0)
      [] OTHER -> WallToInstant(form, DateUTC(2025, 3, d, hh, 0, 0))
NamedInstant(form, d) == WallInstant(form, d, 9)
IsOccurrence(rrule, d) == d >= 3 /\ (rrule = "FREQ=WEEKLY" => (d - 3) % 7 = 0)
InBounds(t) == call.startBoundary <= t /\ t <= call.endBoundary

NoMaps == [masters |-> <<>>, cancelled |-> <<>>, overrides |-> <<>>]
\* the events parseICS gives for the series alone, within the same bounds
SeriesAlone(form, rrule) ==
    parseICS(RecurringFeed(form, rrule, "none", 0), call.startBoundary,
             call.endBoundary, NoMaps).events
Starts(events) == {events[k].start : k \in 1..Len(events)}

\* C4: a cancelled block whose RECURRENCE-ID names, in the form and zone of
\* the master's DTSTART, one occurrence of the series inside the bounds
\* removes exactly that occurrence: one event fewer than for the series
\* alone, and the missing one is the named occurrence.
C4_CancelledOccurrenceRemoved ==
    \A form \in SeriesForms, rrule \in SeriesRules, d \in NamedDays :
        ( /\ pc = "resolved"
          /\ served["u1"] = Answer(RecurringFeed(form, rrule, "cancel", d))
          /\ IsOccurrence(rrule, d)
          /\ InBounds(NamedInstant(form, d)) )
        => /\ Len(allResults[1]) = Len(SeriesAlone(form, rrule)) - 1
           /\ Starts(allResults[1])
                = Starts(SeriesAlone(form, rrule)) \ {toISOString(NamedInstant(form, d))}

\* C5: an override block whose RECURRENCE-ID names one occurrence of the
\* series inside the bounds gives exactly one event with the override's
\* summary, location, start and end, no event of the master at the named
\* instant, and the master's event at every other occurrence.
C5_OverrideReplacesOccurrence ==
    \A form \in SeriesForms, rrule \in SeriesRules, d \in NamedDays :
        ( /\ pc = "resolved"
          /\ served["u1"] = Answer(RecurringFeed(form, rrule, "override", d))
          /\ IsOccurrence(rrule, d)
          /\ InBounds(NamedInstant(form, d)) )
        => LET out == allResults[1]
               moved == {k \in 1..Len(out) : out[k].subject = "Standup (moved)"}
               kept == {k \in 1..Len(out) : out[k].subject = "Standup"}
               movedStart == WallInstant(form, OverrideStartDay(form, d),
                                         OverrideStartHour(form, 9))
               movedEnd == movedStart + (IF form = "date" THEN MsPerDay ELSE MsPerHour)
           IN  /\ Cardinality(moved) = 1
               /\ \A k \in moved :
                    /\ out[k].location = "Room 2"
                    /\ out[k].start = toISOString(movedStart)
                    /\ out[k].end = toISOString(movedEnd)
               /\ \A k \in kept :
                    /\ out[k].location = "Room 1"
                    /\ out[k].start # toISOString(NamedInstant(form, d))
               /\ Cardinality(kept) = Len(SeriesAlone(form, rrule)) - 1
               /\ Len(out) = Cardinality(moved) + Cardinality(kept)

\* C6: every occurrence of a registered master (no cancellation, no override)
\* whose start lies in the widened window [startBoundaryUTC, endBoundaryUTC]
\* is returned.
C6_ExpansionCoversWidenedWindow ==
    ( /\ pc = "resolved"
      /\ cancelledInstances = <<>>
      /\ overrideInstances = <<>> )
    => \A i \in 1..Len(recurringMasters) :
          LET m == recurringMasters[i].value
              inWindow == RuleBetween(DateParseISO(m.startISO), m.rrule,
                                      call.startBoundaryUTC, call.endBoundaryUTC)
          IN  \A j \in 1..Len(inWindow) :
                \E ev \in Returned : ev.id = << m.uid, toISOString(inWindow[j]) >>

\* the nominal interval of an event, as its start and end strings give it
StartOf(ev) == DateParseISO(ev.start)
EndOf(ev) == DateParseISO(ev.end)
\* the event was written with a date-only DTSTART
DateOnly(ev) ==
    /\ ~ev.isRecurring
    /\ \E n \in 1..Len(ev.raw) :
          ev.raw[n].name = "DTSTART" /\ ev.raw[n].value.kind = "date"
\* the single event of a feed of one standalone block, once parsed
Parsed == {allResults[1][k] : k \in 1..Len(allResults[1])}
Retained(ev) == \E r \in Returned : r.id = ev.id

\* C7: every returned event overlaps the window: its interval from start to
\* end (for the events that do not end before they start) meets
\* [startBoundaryUTC, endBoundaryUTC]; so it does not start after
\* endBoundaryUTC, midnight start or not.
C7_ReturnedEventsOverlapWindow ==
    pc = "resolved" =>
        \A ev \in Returned :
            EndOf(ev) >= StartOf(ev) =>
                /\ StartOf(ev) <= call.endBoundaryUTC
                /\ EndOf(ev) >= call.startBoundaryUTC

\* C8: a standalone event that starts before the window and ends after it
\* (for a date-only event: whose end less one day is after it) is retained.
C8_SpanningEventRetained ==
    pc = "resolved" =>
        \A ev \in Parsed :
            ( /\ ~ev.isRecurring
              /\ StartOf(ev) < call.startBoundaryUTC
              /\ (IF DateOnly(ev) THEN EndOf(ev) - MsPerDay ELSE EndOf(ev))
                    > call.endBoundaryUTC )
            => Retained(ev)

\* a date-only event from before the window to more than a day after it
C8_Witness ==
    /\ pc = "resolved"
    /\ \E ev \in Parsed :
          /\ DateOnly(ev)
          /\ StartOf(ev) < call.startBoundaryUTC
          /\ EndOf(ev) - MsPerDay > call.endBoundaryUTC
          /\ Retained(ev)

\* C9: a date-only event from S to E > S counts as ending at E less one day:
\* when it starts before the window and E less one day is before the window
\* too, it is not retained; when E <= S nothing is subtracted, and it is
\* retained exactly when S or E lies in the window (or they enclose it).
C9_AllDayEndIsExclusive ==
    pc = "resolved" =>
        \A ev \in Parsed :
            DateOnly(ev) =>
                /\ ( /\ EndOf(ev) > StartOf(ev)
                     /\ StartOf(ev) < call.startBoundaryUTC
                     /\ EndOf(ev) - MsPerDay < call.startBoundaryUTC )
                   => ~Retained(ev)
                /\ EndOf(ev) <= StartOf(ev)
                   => ( Retained(ev) <=>
                          \/ InWindow(StartOf(ev))
                          \/ InWindow(EndOf(ev))
                          \/ ( /\ StartOf(ev) <= call.startBoundaryUTC
                               /\ EndOf(ev) >= call.endBoundaryUTC ) )

\* DTSTART;VALUE=DATE / DTEND;VALUE=DATE two days later, the window opening
\* during the second day: the nominal end is in the window, the event is out
C9_Witness ==
    /\ pc = "resolved"
    /\ \E ev \in Parsed :
          /\ DateOnly(ev)
          /\ EndOf(ev) = StartOf(ev) + 2 * MsPerDay
          /\ StartOf(ev) < call.startBoundaryUTC
          /\ EndOf(ev) - MsPerDay < call.startBoundaryUTC
          /\ InWindow(EndOf(ev))
          /\ ~Retained(ev)

\* C10: an invocation that completes on the settings, feeds and clock of the
\* first completed invocation returns what that one returned, whatever was
\* fetched and parsed in between.
C10_SameInputsSameOutput ==
    [][ ( /\ firstCall.completed
          /\ firstCall.settings = settings
          /\ firstCall.served = served
          /\ firstCall.now = now
          /\ UNCHANGED << settings, served, now >>
          /\ pc' \in {"resolved", "rejected"}
          /\ pc = "fetching" \/ (pc' = "rejected" /\ call' = NoCall) )
        => returned' = firstCall.returned ]_vars

\* the first invocation returned events; an invocation on other inputs and
\* then one on the first inputs again have completed
C10_Witness ==
    /\ firstCall.completed
    /\ firstCall.settings = settings /\ firstCall.served = served /\ firstCall.now = now
    /\ Len(firstCall.returned.events) > 1
    /\ firstCall.repeated
    /\ pc = "resolved"
    /\ returned = firstCall.returned

\* what the callbacks of the running invocation produce, each source parsed
\* on its own, in the order of the sources
ResultsInSourceOrder ==
    [ i \in 1..Len(call.sources) |->
        WithMeta(parseICS(served[call.sources[i].url].text, call.startBoundary,
                          call.endBoundary, NoMaps).events,
                 call.sources[i]) ]

\* C11: requestUrl has been called for every enabled source before any
\* callback goes on; the invocation resolves only when every callback has
\* run; and the returned list is the merge of the sources' own parse results,
\* whatever the order in which the callbacks ran.
C11_FanOutFanInOrderIndependent ==
    /\ pc = "fetching" =>
            /\ requested = [i \in 1..Len(call.sources) |-> call.sources[i].url]
            /\ pending = (1..Len(call.sources)) \ {settled[k] : k \in 1..Len(settled)}
    /\ pc = "resolved" =>
            /\ pending = {}
            /\ Len(settled) = Len(call.sources)
            /\ returned.events = MergeFilterSort(ResultsInSourceOrder, call)

\* the second source answered first; both feeds use UID "A" and events of
\* both sources are returned
C11_Witness ==
    /\ pc = "resolved"
    /\ settled = << 2, 1 >>
    /\ served["u1"].text = SeriesFeed
    /\ served["u2"].text = ExceptionsFeed
    /\ \E ev \in Returned : ev.calendarId = "c1" /\ ev.isRecurring
    /\ \E ev \in Returned : ev.calendarId = "c2"

\* toISO accepts the value of the line
Converts(line) == toISO(readProp(line).value, readProp(line).tz) # Null

\* what the parse of the feed of the one source has done
ObservedEffects ==
    (IF recurringMasters # <<>> THEN {"master"} ELSE {})
    \cup (IF cancelledInstances # <<>> THEN {"cancelled"} ELSE {})
    \cup (IF overrideInstances # <<>> THEN {"override"} ELSE {})
    \cup (IF \E k \in 1..Len(allResults[1]) : ~allResults[1][k].isRecurring
          THEN {"standalone"} ELSE {})

\* the effect the order of the tests gives a block
EffectInOrder(rrule, ridForm, canceled) ==
    IF rrule # "" /\ ridForm = "none" THEN {"master"}
    ELSE IF ridForm # "none" /\ canceled THEN {"cancelled"}
    ELSE IF ridForm # "none" THEN {"override"}
    ELSE IF ~canceled THEN {"standalone"}
    ELSE {}

\* the feed of the one source is this block alone and its callback has run
SameBlock(a, b) ==
    /\ Len(a) = Len(b)
    /\ \A i \in 1..Len(a) :
            a[i].name = b[i].name /\ a[i].tzid = b[i].tzid /\ a[i].value = b[i].value

ParsedAlone(block) ==
    /\ Len(call.sources) = 1
    /\ settled = << 1 >>
    /\ Len(served["u1"].text) = 1
    /\ SameBlock(served["u1"].text[1], block)

\* C12 as stated: a block with a UID and a DTSTART that converts has exactly
\* the one effect its RRULE, RECURRENCE-ID and cancellation flag select, in
\* this order: master; cancelled instance; override; standalone event;
\* nothing.
C12_OneEffectPerBlock ==
    \A startForm \in BlockStartForms, rrule \in BlockRules,
       ridForm \in BlockRidForms, canceled \in BOOLEAN :
        ( /\ ParsedAlone(BlockOf("P", startForm, rrule, ridForm, canceled))
          /\ Converts(PropOrBad("DTSTART", startForm, 10, 9)) )
        => ObservedEffects = EffectInOrder(rrule, ridForm, canceled)

\* C12 amended: the same, for a block whose RECURRENCE-ID, when it has one,
\* converts; a block whose RECURRENCE-ID does not convert has no effect.
C12_OneEffectPerBlockConvertibleId ==
    \A startForm \in BlockStartForms, rrule \in BlockRules,
       ridForm \in BlockRidForms, canceled \in BOOLEAN :
        ( /\ ParsedAlone(BlockOf("P", startForm, rrule, ridForm, canceled))
          /\ Converts(PropOrBad("DTSTART", startForm, 10, 9)) )
        => IF ridForm # "none" /\ ~Converts(PropOrBad("RECURRENCE-ID", ridForm, 11, 9))
           THEN ObservedEffects = {}
           ELSE ObservedEffects = EffectInOrder(rrule, ridForm, canceled)

\* a block with both RRULE and RECURRENCE-ID registers an override, no master
C12_Witness ==
    /\ ParsedAlone(BlockOf("P", "UTC", "FREQ=DAILY", "UTC", FALSE))
    /\ ObservedEffects = {"override"}
    /\ allResults[1] = <<>>

\* the feed of the one source is the base feed with this block added, and its
\* callback has run
ParsedAfter(base, block) ==
    /\ Len(call.sources) = 1
    /\ settled = << 1 >>
    /\ Len(served["u1"].text) = Len(base) + 1
    /\ \A k \in 1..Len(base) : SameBlock(served["u1"].text[k], base[k])
    /\ SameBlock(served["u1"].text[Len(base) + 1], block)

\* the events of the base feed parsed on its own, as the callback tags them
EventsOf(base) ==
    WithMeta(parseICS(base, call.startBoundary, call.endBoundary, NoMaps).events,
             call.sources[1])

\* C13: a block without UID, or with a DTSTART or a RECURRENCE-ID that is no
\* date, or with an RRULE text the rule parser rejects, added to a feed:
\* parseICS does not throw (the invocation is not rejected) and the events of
\* the other blocks are those of the feed without the block.
C13_BlockErrorStaysLocal ==
    \A uid \in BlockUids, startForm \in {"UTC", "bad"}, rrule \in BlockRules,
       ridForm \in {"none", "UTC", "bad"}, canceled \in BOOLEAN :
        ( /\ ParsedAfter(SeriesFeed, BlockOf(uid, startForm, rrule, ridForm, canceled))
          /\ \/ uid = ""
             \/ startForm = "bad"
             \/ ridForm = "bad"
             \/ rrule = "FREQ=BOGUS" )
        => /\ pc # "rejected"
           /\ allResults[1] = EventsOf(SeriesFeed)

\* C14: a block whose DTSTART cannot be converted, because its value is no
\* date or because its TZID names no zone the runtime knows, is discarded:
\* the parse of a feed holding only this block yields no event.
C14_UnconvertibleStartDiscarded ==
    \A startForm \in {"bad", "Mars/Olympus"} :
        ParsedAlone(BlockOf("P", startForm, "", "none", FALSE))
            => allResults[1] = <<>>

\* the wall clock of zone tz at instant t, as the instant at which a UTC
\* clock reads the same
WallClockAt(tz, t) == t + ZoneOffset(tz, t)

\* C15: a wall-clock time w that exists in the zone TZID names converts to
\* the instant u at which the wall clock of that zone reads w, on the days
\* before, of and after a change of the zone's offset.
C15_ZonedWallTimeIsExact ==
    \A tz \in ZonedForms \ {"floating"}, d \in ZonedDays, hh \in ZonedHours :
        ParsedAlone(ZonedEvent(tz, d, hh))
            => /\ Len(allResults[1]) = 1
               /\ WallClockAt(tz, DateParseISO(allResults[1][1].start))
                     = DateUTC(2025, 3, d, hh, 0, 0)

\* C16: a DTSTART of the form YYYYMMDDTHHMMSSZ is taken as that UTC instant:
\* a block with a UID and DTSTART:20250310T090000Z yields one event that
\* starts at 2025-03-10T09:00:00.000Z.
C16_UtcFormIsThatInstant ==
    ParsedAlone(BlockOf("P", "utc", "", "none", FALSE))
        => /\ Len(allResults[1]) = 1
           /\ allResults[1][1].start = << 2025, 3, 10, 9, 0, 0, 0 >>

\* C17: a floating date-time (no TZID, no Z) converts to the instant at
\* which the wall clock of the process's zone reads it.
C17_FloatingIsLocalWallTime ==
    \A d \in ZonedDays, hh \in ZonedHours :
        ParsedAlone(ZonedEvent("floating", d, hh))
            => /\ Len(allResults[1]) = 1
               /\ WallClockAt(localZone, DateParseISO(allResults[1][1].start))
                     = DateUTC(2025, 3, d, hh, 0, 0)

Ids(events) == {events[k].id : k \in 1..Len(events)}

\* C18: no two events of the list one parseICS invocation returns, and no
\* two events of the list fetchEvents returns, have the same id.
C18_IdsAreUnique ==
    /\ \A i \in 1..Len(allResults) :
            Cardinality(Ids(allResults[i])) = Len(allResults[i])
    /\ Cardinality(Ids(returned.events)) = Len(returned.events)

SameFeed(a, b) == Len(a) = Len(b) /\ \A k \in 1..Len(a) : SameBlock(a[k], b[k])

\* the feed of the one source is this feed and its callback has run
ParsedFeed(feed) ==
    /\ Len(call.sources) = 1
    /\ settled = << 1 >>
    /\ SameFeed(served["u1"].text, feed)

\* the events generated from the master of RecurringFeed: its overrides
\* carry another summary
FromMaster == {ev \in Parsed : ev.subject = "Standup"}

\* C19: an occurrence generated from a master has the id uid + its start,
\* the master's subject and location, the recurring flag, and ends the
\* master's duration (DTEND - DTSTART) after it starts; the occurrences of a
\* master without DTEND end when they start.
C19_OccurrenceCopiesMaster ==
    /\ \A form \in SeriesForms, rrule \in SeriesRules, extra \in SeriesExtras,
          d \in NamedDays :
            ParsedFeed(RecurringFeed(form, rrule, extra, d))
                => \A ev \in FromMaster :
                        /\ ev.id = << "A", ev.start >>
                        /\ ev.location = "Room 1"
                        /\ ev.isRecurring
                        /\ EndOf(ev) - StartOf(ev)
                              = (IF form = "date" THEN MsPerDay ELSE MsPerHour)
    /\ \A canceled \in BOOLEAN :
            ParsedAlone(BlockOf("P", "UTC", "FREQ=DAILY", "none", canceled))
                => \A ev \in Parsed :
                        /\ ev.id = << "P", ev.start >>
                        /\ ev.subject = "Probe"
                        /\ ev.location = "Lab"
                        /\ ev.isRecurring
                        /\ ev.end = ev.start

\* a daily New York series with one occurrence overridden: the window holds
\* the override and an occurrence that lasts the master's hour
C19_Witness ==
    /\ \E d \in NamedDays :
            ParsedFeed(RecurringFeed("America/New_York", "FREQ=DAILY", "override", d))
    /\ \E ev \in FromMaster : EndOf(ev) - StartOf(ev) = MsPerHour
    /\ \E ev \in Parsed : ev.subject = "Standup (moved)"

\* the events parseICS returns for the feed of source src of the running
\* invocation
RawEventsOf(src) ==
    parseICS(served[src.url].text, call.startBoundary, call.endBoundary, NoMaps).events

\* ev is the event e with nothing but the three tags added
TaggedCopyOf(ev, e) ==
    /\ ev.id = e.id
    /\ ev.isRecurring = e.isRecurring
    /\ ev.subject = e.subject
    /\ ev.start = e.start
    /\ ev.end = e.end
    /\ ev.location = e.location
    /\ ev.raw = e.raw

\* C20: every returned event carries the id and the name of a source whose
\* feed holds it, and that source's color or "#4A90E2" when it has none; its
\* other fields are those parseICS gave it; no event carries the tags of a
\* source whose feed does not hold it.
C20_TaggedWithOwnSource ==
    pc = "resolved" =>
        \A ev \in Returned :
            \E i \in 1..Len(call.sources) :
                /\ ev.calendarId = call.sources[i].id
                /\ ev.calendarName = call.sources[i].name
                /\ ev.color = (IF call.sources[i].color = "" THEN "#4A90E2"
                                ELSE call.sources[i].color)
                /\ \E k \in 1..Len(RawEventsOf(call.sources[i])) :
                        TaggedCopyOf(ev, RawEventsOf(call.sources[i])[k])

\* two sources with different feeds: events of the second source, which has
\* no color, are returned with the default color next to events of the first
C20_Witness ==
    /\ pc = "resolved"
    /\ served["u1"].text = ThreeEvents
    /\ served["u2"].text = SeriesFeed
    /\ \E ev \in Returned : ev.calendarId = "c1" /\ ev.color = "#ff0000"
    /\ \E ev \in Returned :
            ev.calendarId = "c2" /\ ev.calendarName = "Home" /\ ev.color = "#4A90E2"

\* the sources of the running invocation whose response holds a VEVENT
SourcesWithEvents ==
    SelectSeq(call.sources, LAMBDA src : served[src.url].text # <<>>)

\* C21: when every request resolves and the response of some source holds no
\* BEGIN:VEVENT, the invocation resolves and returns what it would return
\* for the other sources alone.
C21_EmptyFeedContributesNothing ==
    ( /\ pc \in {"resolved", "rejected"}
      /\ Len(settled) = Len(call.sources)
      /\ \A i \in 1..Len(call.sources) : served[call.sources[i].url].ok
      /\ \E i \in 1..Len(call.sources) : served[call.sources[i].url].text = <<>> )
    => /\ pc = "resolved"
       /\ returned.events =
            MergeFilterSort([ i \in 1..Len(SourcesWithEvents) |->
                                WithMeta(RawEventsOf(SourcesWithEvents[i]),
                                         SourcesWithEvents[i]) ],
                            call)

\* the first source answers a text without events, the second three events:
\* the three are returned
C21_Witness ==
    /\ pc = "resolved"
    /\ Len(call.sources) = 2
    /\ served[call.sources[1].url].ok /\ served[call.sources[1].url].text = <<>>
    /\ served[call.sources[2].url].text = ThreeEvents
    /\ Len(returned.events) = 3
    /\ \A ev \in Returned : ev.calendarId = call.sources[2].id

LocalDayOf(t) == (t + ZoneOffset(localZone, t)) \div MsPerDay
LocalMidnight(day) == WallToInstant(localZone, day * MsPerDay)
LocalEndOfDay(day) == WallToInstant(localZone, (day + 1) * MsPerDay - 1)
DaysBeforeOrDefault == IF settings.daysBefore = Unset THEN 0 ELSE settings.daysBefore
DaysAheadOrDefault == IF settings.daysAhead = Unset THEN 7 ELSE settings.daysAhead
Running == pc = "fetching"

\* C22: for every daysBefore >= 0 and daysAhead >= 0 (0 and 7 when unset)
\* the filter window of a call starts at the local midnight of today less
\* daysBefore days less 12 hours, and ends 12 hours after local 23:59:59.999
\* of the day (today + daysAhead days); it is never empty and contains all of
\* today.
C22_WindowIsTodayPlusDaysAndBuffer ==
    Running =>
        LET today == LocalDayOf(now)
        IN  /\ call.startBoundaryUTC =
                    LocalMidnight(today) - DaysBeforeOrDefault * MsPerDay
                        - 12 * MsPerHour
            /\ call.endBoundaryUTC =
                    LocalEndOfDay(today + DaysAheadOrDefault) + 12 * MsPerHour
            /\ call.startBoundaryUTC < call.endBoundaryUTC
            /\ call.startBoundaryUTC <= LocalMidnight(today)
            /\ LocalEndOfDay(today) <= call.endBoundaryUTC

\* C23: a DTSTART whose TZID is a Windows zone label, the label
\* "(UTC-05:00) Eastern Time (US & Canada)" included, is read as value = the
\* date-time and zone = America/New_York: the colon inside the label neither
\* truncates nor replaces the value, and the event starts at that New York
\* wall time.
C23_WindowsLabelKeepsValue ==
    \A label \in WindowsLabels, d \in ZonedDays, hh \in ZonedHours :
        ParsedAlone(ZonedEvent(label, d, hh))
            => /\ readProp(DateProp("DTSTART", label, d, hh)).value
                     = LocalValue(3, d, hh, 0)
               /\ readProp(DateProp("DTSTART", label, d, hh)).tz
                     = "America/New_York"
               /\ Len(allResults[1]) = 1
               /\ allResults[1][1].start
                     = toISO(LocalValue(3, d, hh, 0), "America/New_York")

\* the events of an override block among those parseICS gave for the one
\* source: in the feeds of this model an override starts at another time
\* than the occurrence its RECURRENCE-ID names
OverrideEvents ==
    {k \in 1..Len(allResults[1]) : allResults[1][k].id[2] # allResults[1][k].start}
OneSourceParsed == Len(call.sources) = 1 /\ settled = << 1 >>
MasterStart(uid) == DateParseISO(Lookup(recurringMasters, uid).startISO)
MasterPeriod(uid) == RulePeriod(Lookup(recurringMasters, uid).rrule)

\* C27: the event of an override block is in the output of parseICS only if
\* a master with the same UID is registered and the instant of its
\* RECURRENCE-ID is an occurrence of that master inside the expansion
\* bounds, and then at most once per (uid, RECURRENCE-ID); an override
\* without master or named outside the bounds gives no event.
C27_OverrideOnlyOnGeneratedOccurrence ==
    OneSourceParsed =>
        \A k \in OverrideEvents :
            /\ HasKey(recurringMasters, allResults[1][k].id[1])
            /\ InBounds(DateParseISO(allResults[1][k].id[2]))
            /\ DateParseISO(allResults[1][k].id[2])
                    >= MasterStart(allResults[1][k].id[1])
            /\ ( DateParseISO(allResults[1][k].id[2])
                    - MasterStart(allResults[1][k].id[1]) )
                    % MasterPeriod(allResults[1][k].id[1]) = 0
            /\ \A j \in OverrideEvents :
                    allResults[1][j].id = allResults[1][k].id => j = k

\* the moved occurrence of the series is in the output of parseICS
C27_Witness ==
    /\ OneSourceParsed
    /\ OverrideEvents # {}
    /\ allResults[1][CHOOSE k \in OverrideEvents : TRUE].subject = "Standup (moved)"

\* the tag fetchEvents gives the events of a source with these fields
TagOf(src) ==
    [ calendarId |-> src.id, calendarName |-> src.name,
      color |-> IF src.color = "" THEN "#4A90E2" ELSE src.color ]
TagsAtCall ==
    {TagOf(EnabledSources(atCall)[i]) : i \in 1..Len(EnabledSources(atCall))}

\* C29: an invocation reflects the configuration as it was when it began:
\* edits made while it runs (a calendar renamed, recoloured, disabled or
\* removed, the day counts changed) change neither the list of sources it
\* loads, nor the window, nor the tags of the events it returns.
C29_CallReflectsConfigurationAtStart ==
    pc = "resolved" =>
        /\ requested = [ i \in 1..Len(EnabledSources(atCall)) |->
                            EnabledSources(atCall)[i].url ]
        /\ call.startBoundaryUTC = Window(atCall, now).startBoundaryUTC
        /\ call.endBoundaryUTC = Window(atCall, now).endBoundaryUTC
        /\ \A k \in 1..Len(returned.events) :
                [ calendarId |-> returned.events[k].calendarId,
                  calendarName |-> returned.events[k].calendarName,
                  color |-> returned.events[k].color ] \in TagsAtCall

\* the numbers the texts of non-negative integers stand for
EnteredNumber == CHOOSE n \in 0..MaxDaysAhead : ToString(n) = tab.text

\* C30: after any sequence of edits of the two day fields both stored values
\* are non-negative integers, and when the text entered last into a field is
\* a non-negative integer N, 0 included, the value stored in it is N.
C30_DayFieldsStoreWhatWasEntered ==
    /\ settings.daysBefore \in Nat
    /\ settings.daysAhead \in Nat
    /\ ( tab.field \in {"daysBefore", "daysAhead"}
          /\ \E n \in 0..MaxDaysAhead : ToString(n) = tab.text )
        => settings[tab.field] = EnteredNumber

\* C24: when the view is rendered with pinToday on and at least one event,
\* the section of today is the first one and the only one of today, for
\* both sort orders, whether or not an event falls on today; the other days
\* follow in the configured order.
C24_TodayPinnedFirstOnce ==
    (view.screen = "rendered" /\ view.pinned /\ Len(view.events) >= 1) =>
        /\ Len(view.sections) >= 1
        /\ view.sections[1] = view.today
        /\ \A i \in 2..Len(view.sections) : view.sections[i] # view.today
        /\ \A i, j \in 2..Len(view.sections) :
                i < j => IF view.order = "asc"
                         THEN view.sections[i] < view.sections[j]
                         ELSE view.sections[i] > view.sections[j]

\* descending order, two other days, no event on today
C24_Witness ==
    /\ view.screen = "rendered" /\ view.pinned /\ view.order = "desc"
    /\ Len(view.sections) >= 3
    /\ \A k \in 1..Len(view.events) : DayKey(view.events[k]) # view.today

\* C25: whatever the sequence of setEvents and render calls, at most one
\* "last updated" interval is active at any time, and none is once the view
\* is closed by the unloading of the plugin.
C25_OneTimerNoneAfterUnload ==
    /\ Cardinality(intervals) <= 1
    /\ ~view.open => intervals = {}

EventIds(events) == [k \in 1..Len(events) |-> events[k].id]
Shown(outcome) == IF outcome.ok THEN EventIds(outcome.events) ELSE <<>>

\* C26: after a click on Refresh the loading text is always replaced, in the
\* end, by the rendered view.  Without an enabled calendar fetchEvents is not
\* called and the view is rendered at once, without events; otherwise the
\* loading text gives way to the events a call resolved with, or to an empty
\* list when the call of the click is rejected.
C26_LoadingAlwaysEnds ==
    /\ (view.screen = "loading") ~> (view.screen = "rendered")
    /\ [][ (RefreshClick /\ ~CalendarsConfigured)
            => ( fetches' = fetches /\ view'.screen = "rendered"
                 /\ view'.events = <<>> ) ]_vars
    /\ [][ (view.screen = "loading" /\ view'.screen # "loading")
            => ( /\ view'.screen = "rendered"
                 /\ \E f \in fetches.inflight \ fetches'.inflight :
                        EventIds(view'.events) = Shown(f.outcome) ) ]_vars

\* the loading text is shown and the call of the click is going to be rejected
C26_Witness ==
    /\ view.screen = "loading"
    /\ \E f \in fetches.inflight : f.origin = "refresh" /\ ~f.outcome.ok

\* C28: when several fetchEvents calls for the view were in flight and all
\* have settled, whatever the order, the view shows what the call that was
\* made last resolved with.
C28_LatestCallWins ==
    ( view.open /\ fetches.calls >= 2 /\ fetches.inflight = {}
      /\ fetches.latest # <<>> /\ fetches.latest[1].ok )
        => EventIds(view.events) = EventIds(fetches.latest[1].events)
====
